---- MODULE Spec2Model ----
(***************************************************************************)
(* Model of the meeting assistant: the useAudioRecorder hook               *)
(* (src/hooks/useAudioRecorder.ts), the App component's processing         *)
(* pipeline (src/App.tsx) and the two model-service calls                  *)
(* (src/services/geminiService.ts).                                        *)
(*                                                                         *)
(* JavaScript strings are modelled as sequences of tokens: the empty       *)
(* string is << >>, a template literal is the concatenation (\o) of its    *)
(* parts, join(sep) interleaves the separator token.  The Thai literals of *)
(* the source are named by ASCII tokens.                                   *)
(***************************************************************************)
EXTENDS Integers, Sequences, FiniteSets, TLC

\* Bound of the model: the payload sources (start clicks, file dialogs that
\* were not dismissed) of one behaviour.
MaxPayloads == 2
\* Bounds of the presenter's specification: the segments of the displayed
\* transcript, and the copy timers pending per card.
MaxSegments == 3
MaxTimers == 2

VARIABLES
    isRecording,        \* useAudioRecorder.ts:5   useState<boolean>(false)
    audioBlob,          \* useAudioRecorder.ts:6   useState<Blob | null>(null)
    mediaRecorderRef,   \* useAudioRecorder.ts:7   index into captures, 0 = null
    audioChunksRef,     \* useAudioRecorder.ts:8   chunks, each named by its capture
    micPending,         \* startRecording calls suspended at line 12
    captures,           \* streams granted by getUserMedia and their recorders
    alerts,             \* alert() calls of the catch block (line 37)
    dialogOpen,         \* the file dialog opened by handleUploadClick
    status,             \* App.tsx:16
    transcript,         \* App.tsx:17
    summary,            \* App.tsx:18
    error,              \* App.tsx:19
    runs,               \* invocations of handleProcessAudio, in start order
    transcriptBy,       \* history: the run whose setTranscript wrote transcript
    summaryBy,          \* history: the run whose setSummary wrote summary
    startedFrom,        \* history: the App state the newest run started from
    copiedTranscript,   \* App.tsx:21
    copiedSummary,      \* App.tsx:22
    copyTimers,         \* pending setTimeout callbacks of copyToClipboard
    clipboard,          \* the text last passed to navigator.clipboard.writeText
    download,           \* the text of the file last offered by handleExport
    payloads            \* history: the AudioPayloads made available so far

vars == <<isRecording, audioBlob, mediaRecorderRef, audioChunksRef, micPending,
          captures, alerts, dialogOpen, status, transcript, summary, error, runs,
          transcriptBy, summaryBy, startedFrom, copiedTranscript, copiedSummary,
          copyTimers, clipboard, download, payloads>>

presenterVars == <<copiedTranscript, copiedSummary, copyTimers, clipboard, download>>

hookVars == <<isRecording, audioBlob, mediaRecorderRef, audioChunksRef,
              micPending, captures, alerts>>
appVars == <<status, transcript, summary, error, runs, transcriptBy, summaryBy,
             startedFrom>>

----------------------------------------------------------------------------
\* Data

\* TranscriptSegment values a model response may hold (speaker is optional:
\* the empty string stands for an absent speaker, both are falsy).
SegA == [speaker |-> <<"speaker1">>, text |-> <<"a">>,
         startTime |-> <<"00:00:00">>, endTime |-> <<"00:00:02">>]
SegB == [speaker |-> << >>, text |-> <<"b">>,
         startTime |-> <<"00:00:02">>, endTime |-> <<"00:00:05">>]
SegC == [speaker |-> <<"speaker2">>, text |-> <<"c">>,
         startTime |-> <<"00:00:05">>, endTime |-> <<"00:00:09">>]

\* The arrays JSON.parse may return for a schema-conforming response.
Transcripts == { << >>, <<SegA>>, <<SegB, SegA>> }

\* Outcomes of the transcription request: a transport error, a response
\* text that is not JSON, or a JSON array.
TranscribeOutcomes ==
    { [kind |-> "error", value |-> << >>], [kind |-> "malformed", value |-> << >>] }
    \cup { [kind |-> "json", value |-> t] : t \in Transcripts }

\* Outcomes of the summarization request: a transport error or response.text.
SummarizeOutcomes ==
    { [kind |-> "error", value |-> << >>],
      [kind |-> "text", value |-> << >>],
      [kind |-> "text", value |-> <<"summary">>] }

\* "ไม่มีข้อความให้สรุป"  (geminiService.ts:86)
NothingToSummarize == <<"NOTHING_TO_SUMMARIZE">>
\* "ไม่สามารถสร้างสรุปได้เนื่องจากไม่มีข้อความที่ถอดเสียง"  (App.tsx:48)
NoTranscriptSummary == <<"NO_SUMMARY_BECAUSE_NO_TRANSCRIPT">>
\* "ไม่สามารถถอดเสียงได้ ... โปรดลองอีกครั้ง"  (geminiService.ts:79)
TranscribeFailedMessage == <<"CANNOT_TRANSCRIBE">>
\* "ไม่สามารถสร้างสรุปได้ โปรดลองอีกครั้ง"  (geminiService.ts:115)
SummarizeFailedMessage == <<"CANNOT_SUMMARIZE">>
\* "เกิดข้อผิดพลาดระหว่างการประมวลผล: "  (App.tsx:55)
ErrorPrefix == <<"PROCESSING_ERROR: ">>

\* Nothing was written yet (to the clipboard, to a download); Written(type, t)
\* is the text t written for the card of that type ("transcript", "summary").
NoText == [type |-> "none", text |-> << >>]
Written(type, t) == [type |-> type, text |-> t]

\* audioBlob === null
NoBlob == [kind |-> "null", chunks |-> << >>]
\* new Blob(audioChunksRef.current, ...)
RecordedBlob(chunks) == [kind |-> "recording", chunks |-> chunks]
\* event.target.files[0]
FileBlob == [kind |-> "file", chunks |-> << >>]

\* Array.prototype.join
RECURSIVE Join(_, _)
Join(parts, sep) ==
    IF Len(parts) = 0 THEN << >>
    ELSE IF Len(parts) = 1 THEN parts[1]
    ELSE parts[1] \o sep \o Join(Tail(parts), sep)

\* The token s occurs in the string str.
Contains(str, s) == \E i \in 1..Len(str) : str[i] = s

----------------------------------------------------------------------------
\* App.tsx: the processing pipeline

Init ==
    /\ isRecording = FALSE
    /\ audioBlob = NoBlob
    /\ mediaRecorderRef = 0
    /\ audioChunksRef = << >>
    /\ micPending = 0
    /\ captures = << >>
    /\ alerts = 0
    /\ dialogOpen = FALSE
    /\ status = "IDLE"
    /\ transcript = << >>
    /\ summary = << >>
    /\ error = << >>
    /\ runs = << >>
    /\ transcriptBy = 0
    /\ summaryBy = 0
    /\ startedFrom = [status |-> "NONE", results |-> FALSE, error |-> FALSE]
    /\ copiedTranscript = FALSE
    /\ copiedSummary = FALSE
    /\ copyTimers = [transcript |-> 0, summary |-> 0]
    /\ clipboard = NoText
    /\ download = NoText
    /\ payloads = << >>

\* ActionPanel's isLoading prop (App.tsx:111)
isLoading == status = "PROCESSING"

\* resetState without its setError(''): an earlier run's error survives.
resetState_KeepsError ==
    [transcript |-> << >>, summary |-> << >>, error |-> error,
     copiedTranscript |-> FALSE, copiedSummary |-> FALSE, status |-> "IDLE"]

\* resetState (App.tsx:27-34): the values it stores
resetState ==
    [transcript |-> << >>, summary |-> << >>, error |-> << >>,
     copiedTranscript |-> FALSE, copiedSummary |-> FALSE, status |-> "IDLE"]

\* A fresh invocation of handleProcessAudio, suspended in blobToBase64.
\*   pc    where the invocation is: "encoding" (geminiService.ts:52),
\*         "transcribing" (geminiService.ts:65), "summarizing"
\*         (geminiService.ts:104), "done" (App.tsx:51), "failed" (App.tsx:56)
\*   tReq  the transcription request: "none", "pending", "ok", "failed"
\*   sReq  the summarization request, likewise
\*   tSent, sSent  the generateContent calls made for transcription
\*         (geminiService.ts:65) and for summarization (geminiService.ts:104)
\*   tRes  the array transcribeAudio returned
\*   sDoc  textToSummarize, the document sent to summarization
NewRun(blob) ==
    [blob |-> blob, pc |-> "encoding", tReq |-> "none", sReq |-> "none",
     tSent |-> 0, sSent |-> 0, tRes |-> << >>, sDoc |-> << >>]

\* handleProcessAudio up to its first suspension (App.tsx:36-41):
\* resetState(), setStatus(PROCESSING), then transcribeAudio awaits blobToBase64.
handleProcessAudio(blob) ==
    /\ transcript' = resetState.transcript
    /\ summary' = resetState.summary
    /\ error' = resetState.error
    /\ copiedTranscript' = resetState.copiedTranscript
    /\ copiedSummary' = resetState.copiedSummary
    /\ status' = "PROCESSING"
    /\ runs' = Append(runs, NewRun(blob))
    /\ transcriptBy' = 0
    /\ summaryBy' = 0
    /\ startedFrom' = [status |-> status,
                       results |-> (transcript # << >> \/ summary # << >>),
                       error |-> (error # << >>)]
    /\ UNCHANGED <<copyTimers, clipboard, download>>

\* catchError without the setStatus(Status.IDLE) of App.tsx:56.
catchError_StatusNotReset(r, message, tReq, sReq) ==
    /\ error' = ErrorPrefix \o message
    /\ runs' = [runs EXCEPT ![r].pc = "failed", ![r].tReq = tReq, ![r].sReq = sReq]
    /\ UNCHANGED <<status, transcript, summary, transcriptBy, summaryBy, startedFrom>>

\* The catch block of handleProcessAudio (App.tsx:52-57) for run r, with the
\* Error thrown by the service call; transcript and summary are not written.
catchError(r, message, tReq, sReq) ==
    /\ error' = ErrorPrefix \o message
    /\ status' = "IDLE"
    /\ runs' = [runs EXCEPT ![r].pc = "failed", ![r].tReq = tReq, ![r].sReq = sReq]
    /\ UNCHANGED <<transcript, summary, transcriptBy, summaryBy, startedFrom>>

\* summarizeText building its document from the last segment to the first.
summarizeText_Reversed(t) ==
    IF Len(t) = 0
    THEN [request |-> FALSE, value |-> NothingToSummarize, doc |-> << >>]
    ELSE [request |-> TRUE, value |-> << >>,
          doc |-> Join([i \in 1..Len(t) |-> t[Len(t) + 1 - i].text], <<"\n">>)]

\* summarizeText up to its request (geminiService.ts:84-104): the placeholder
\* without a request for an empty transcript, else the request's document.
summarizeText(t) ==
    IF Len(t) = 0
    THEN [request |-> FALSE, value |-> NothingToSummarize, doc |-> << >>]
    ELSE [request |-> TRUE, value |-> << >>,
          doc |-> Join([i \in 1..Len(t) |-> t[i].text], <<"\n">>)]

\* blobToBase64 settles for run r (geminiService.ts:12-22, 52): the request is
\* issued (line 65), or the reader's error is rethrown at line 79.
blobToBase64Settled(r, ok) ==
    /\ runs[r].pc = "encoding"
    /\ IF ok
       THEN /\ runs' = [runs EXCEPT ![r].pc = "transcribing", ![r].tReq = "pending",
                                    ![r].tSent = @ + 1]
            /\ UNCHANGED <<status, transcript, summary, error, transcriptBy,
                           summaryBy, startedFrom>>
       ELSE catchError(r, TranscribeFailedMessage, "none", "none")
    /\ UNCHANGED <<hookVars, dialogOpen, presenterVars, payloads>>

\* afterTranscribe with the empty-transcript branch taken through
\* summarizeText: the summary of an empty transcript is summarizeText's
\* placeholder instead of the one of App.tsx:48.
afterTranscribe_PlaceholderOfService(r, res) ==
    /\ transcript' = res
    /\ transcriptBy' = r
    /\ LET s == summarizeText(res) IN
       IF s.request
       THEN /\ runs' = [runs EXCEPT ![r].pc = "summarizing", ![r].tReq = "ok",
                                    ![r].tRes = res, ![r].sReq = "pending",
                                    ![r].sSent = @ + 1,
                                    ![r].sDoc = s.doc]
            /\ UNCHANGED <<summary, summaryBy, status>>
       ELSE /\ runs' = [runs EXCEPT ![r].pc = "done", ![r].tReq = "ok",
                                    ![r].tRes = res]
            /\ summary' = s.value
            /\ summaryBy' = r
            /\ status' = "DONE"
    /\ UNCHANGED <<error, startedFrom>>

\* afterTranscribe without the length check of App.tsx:44 and with the request
\* issued whatever the transcript holds.
afterTranscribe_NoLengthCheck(r, res) ==
    /\ transcript' = res
    /\ transcriptBy' = r
    /\ runs' = [runs EXCEPT ![r].pc = "summarizing", ![r].tReq = "ok",
                            ![r].tRes = res, ![r].sReq = "pending",
                                    ![r].sSent = @ + 1,
                            ![r].sDoc = Join([i \in 1..Len(res) |-> res[i].text],
                                             <<"\n">>)]
    /\ UNCHANGED <<summary, summaryBy, status, error, startedFrom>>

\* The continuation of handleProcessAudio after transcribeAudio returned the
\* array res (App.tsx:42-51).
afterTranscribe(r, res) ==
    /\ transcript' = res
    /\ transcriptBy' = r
    /\ IF Len(res) > 0
       THEN LET s == summarizeText(res) IN
            IF s.request
            THEN /\ runs' = [runs EXCEPT ![r].pc = "summarizing", ![r].tReq = "ok",
                                         ![r].tRes = res, ![r].sReq = "pending",
                                    ![r].sSent = @ + 1,
                                         ![r].sDoc = s.doc]
                 /\ UNCHANGED <<summary, summaryBy, status>>
            ELSE /\ runs' = [runs EXCEPT ![r].pc = "done", ![r].tReq = "ok",
                                         ![r].tRes = res]
                 /\ summary' = s.value
                 /\ summaryBy' = r
                 /\ status' = "DONE"
       ELSE /\ runs' = [runs EXCEPT ![r].pc = "done", ![r].tReq = "ok",
                                    ![r].tRes = res]
            /\ summary' = NoTranscriptSummary
            /\ summaryBy' = r
            /\ status' = "DONE"
    /\ UNCHANGED <<error, startedFrom>>

\* transcribeSettled with one retry: a failed first request is issued again
\* instead of being rethrown.
transcribeSettled_RetryOnce(r, outcome) ==
    /\ runs[r].pc = "transcribing"
    /\ IF outcome.kind = "json"
       THEN afterTranscribe(r, outcome.value)
       ELSE IF runs[r].tSent < 2
       THEN /\ runs' = [runs EXCEPT ![r].tSent = @ + 1]
            /\ UNCHANGED <<status, transcript, summary, error, transcriptBy,
                           summaryBy, startedFrom>>
       ELSE catchError(r, TranscribeFailedMessage, "failed", "none")
    /\ UNCHANGED <<hookVars, dialogOpen, presenterVars, payloads>>

\* The transcription request of run r settles (geminiService.ts:65-80) and
\* handleProcessAudio resumes (App.tsx:41-57).
transcribeSettled(r, outcome) ==
    /\ runs[r].pc = "transcribing"
    /\ IF outcome.kind = "json"
       THEN afterTranscribe(r, outcome.value)
       ELSE catchError(r, TranscribeFailedMessage, "failed", "none")
    /\ UNCHANGED <<hookVars, dialogOpen, presenterVars, payloads>>

\* The summarization request of run r settles (geminiService.ts:104-116) and
\* handleProcessAudio resumes (App.tsx:45-57).
summarizeSettled(r, outcome) ==
    /\ runs[r].pc = "summarizing"
    /\ IF outcome.kind = "text"
       THEN /\ summary' = outcome.value
            /\ summaryBy' = r
            /\ status' = "DONE"
            /\ runs' = [runs EXCEPT ![r].pc = "done", ![r].sReq = "ok"]
            /\ UNCHANGED <<transcript, error, transcriptBy, startedFrom>>
       ELSE catchError(r, SummarizeFailedMessage, runs[r].tReq, "failed")
    /\ UNCHANGED <<hookVars, dialogOpen, presenterVars, payloads>>

\* The payload sources used so far: the runs started, the recorders that have
\* delivered no blob, the start calls that ended in the catch block, the
\* pending getUserMedia calls and the open dialog.
SourcesUsed ==
    Len(runs)
    + Cardinality({c \in 1..Len(captures) :
                      captures[c].recorder \in {"recording", "stopping"}})
    + alerts
    + micPending
    + (IF dialogOpen THEN 1 ELSE 0)

\* The browser's file dialog is modal: while it is open no click reaches the
\* buttons of the page (timers, promises and media events still run).
PageClickable == ~dialogOpen

\* The upload button (App.tsx:195-197, 74-76): enabled unless isLoading or
\* isRecording; the click opens the file dialog.
handleUploadClick ==
    /\ PageClickable
    /\ ~isLoading
    /\ ~isRecording
    /\ SourcesUsed < MaxPayloads
    /\ dialogOpen' = TRUE
    /\ UNCHANGED <<hookVars, appVars, presenterVars, payloads>>

\* The input's change event (App.tsx:67-72): a file was chosen.
handleFileChange ==
    /\ dialogOpen
    /\ dialogOpen' = FALSE
    /\ payloads' = Append(payloads, FileBlob)
    /\ handleProcessAudio(FileBlob)
    /\ UNCHANGED hookVars

\* fileDialogCancelled without the if (file) of App.tsx:69: the change event
\* with an empty file list starts a run on undefined.
fileDialogCancelled_NoFileCheck ==
    /\ dialogOpen
    /\ dialogOpen' = FALSE
    /\ handleProcessAudio(NoBlob)
    /\ UNCHANGED <<hookVars, payloads>>

\* The dialog is dismissed: no file, no run (App.tsx:68-69).
fileDialogCancelled ==
    /\ dialogOpen
    /\ dialogOpen' = FALSE
    /\ UNCHANGED <<hookVars, appVars, presenterVars, payloads>>

----------------------------------------------------------------------------
\* useAudioRecorder.ts: the recorder hook

\* A stream granted by getUserMedia and the MediaRecorder built on it.
\*   stream     "live" or "released" (every track stopped)
\*   recorder   "none" (the constructor threw), "recording", "stopping"
\*              (stop() called, its dataavailable and stop events queued),
\*              "inactive" (the stop event was dispatched)
\*   delivered  the blobs its stop listener passed to setAudioBlob
NewCapture(recorder) ==
    [stream |-> "live", recorder |-> recorder, delivered |-> 0]

\* The start button (App.tsx:185-187, shown when not isRecording, enabled
\* unless isLoading): startRecording suspends in getUserMedia (line 12).
startRecording ==
    /\ PageClickable
    /\ ~isRecording
    /\ ~isLoading
    /\ SourcesUsed < MaxPayloads
    /\ micPending' = micPending + 1
    /\ UNCHANGED <<isRecording, audioBlob, mediaRecorderRef, audioChunksRef,
                   captures, alerts, dialogOpen, appVars, presenterVars, payloads>>

\* getUserMedia resolves with a stream (useAudioRecorder.ts:12-34).  With
\* constructed = FALSE, new MediaRecorder throws (an unsupported mimeType) and
\* the catch block runs after lines 13-15 took effect.  setAudioBlob(null)
\* re-runs the effect of App.tsx:60-65, which does nothing for null.
getUserMediaResolved(constructed) ==
    /\ micPending > 0
    /\ micPending' = micPending - 1
    /\ isRecording' = TRUE
    /\ audioBlob' = NoBlob
    /\ audioChunksRef' = << >>
    /\ IF constructed
       THEN /\ captures' = Append(captures, NewCapture("recording"))
            /\ mediaRecorderRef' = Len(captures) + 1
            /\ UNCHANGED alerts
       ELSE /\ captures' = Append(captures, NewCapture("none"))
            /\ alerts' = alerts + 1
            /\ UNCHANGED mediaRecorderRef
    /\ UNCHANGED <<dialogOpen, appVars, presenterVars, payloads>>

\* getUserMediaRejected with setIsRecording(true) hoisted above the await of
\* line 12: the rejected call leaves the recording flag set.
getUserMediaRejected_FlagSetBeforeAwait ==
    /\ micPending > 0
    /\ micPending' = micPending - 1
    /\ alerts' = alerts + 1
    /\ isRecording' = TRUE
    /\ UNCHANGED <<audioBlob, mediaRecorderRef, audioChunksRef, captures,
                   dialogOpen, appVars, presenterVars, payloads>>

\* getUserMedia rejects (useAudioRecorder.ts:12, 35-38): the alert, no write.
getUserMediaRejected ==
    /\ micPending > 0
    /\ micPending' = micPending - 1
    /\ alerts' = alerts + 1
    /\ UNCHANGED <<isRecording, audioBlob, mediaRecorderRef, audioChunksRef,
                   captures, dialogOpen, appVars, presenterVars, payloads>>

\* stopRecording with setIsRecording(false) moved out of the if of line 42:
\* the flag is cleared although there is no recorder to stop.
stopRecordingEffect_FlagClearedAlways ==
    [isRecording |-> FALSE,
     captures |->
         IF mediaRecorderRef # 0 /\ captures[mediaRecorderRef].recorder = "recording"
         THEN [captures EXCEPT ![mediaRecorderRef].recorder = "stopping"]
         ELSE captures,
     audioBlob |-> audioBlob,
     audioChunksRef |-> audioChunksRef]

\* What a call of stopRecording (useAudioRecorder.ts:41-46) leaves in the
\* hook's state: with a recorder in the ref, stop() on it (a recording
\* recorder queues its dataavailable and stop events) and setIsRecording(false);
\* with a null ref, nothing.  The blob and the chunks are not written.
stopRecordingEffect ==
    IF mediaRecorderRef # 0
    THEN [isRecording |-> FALSE,
          captures |->
              IF captures[mediaRecorderRef].recorder = "recording"
              THEN [captures EXCEPT ![mediaRecorderRef].recorder = "stopping"]
              ELSE captures,
          audioBlob |-> audioBlob,
          audioChunksRef |-> audioChunksRef]
    ELSE [isRecording |-> isRecording, captures |-> captures,
          audioBlob |-> audioBlob, audioChunksRef |-> audioChunksRef]

\* The stop button (App.tsx:175-178, shown when isRecording, enabled unless
\* isLoading): stopRecording (useAudioRecorder.ts:41-46).  MediaRecorder.stop()
\* on a recorder that is not recording queues no event (where a browser
\* throws InvalidStateError instead, line 44 is skipped and no variable
\* changes: a stuttering step).
stopRecording ==
    /\ PageClickable
    /\ isRecording
    /\ ~isLoading
    /\ isRecording' = stopRecordingEffect.isRecording
    /\ captures' = stopRecordingEffect.captures
    /\ audioBlob' = stopRecordingEffect.audioBlob
    /\ audioChunksRef' = stopRecordingEffect.audioChunksRef
    /\ UNCHANGED <<mediaRecorderRef, micPending, alerts, dialogOpen, appVars, presenterVars, payloads>>

\* The task queued by stop() on recorder c: the dataavailable event (lines
\* 21-25; hasData = FALSE is event.data.size === 0), then the stop event (lines
\* 27-32), then the effect of App.tsx:60-65 on the new audioBlob.
recorderStopped(c, hasData) ==
    /\ captures[c].recorder = "stopping"
    /\ LET chunks == IF hasData THEN Append(audioChunksRef, c) ELSE audioChunksRef
       IN  /\ audioChunksRef' = chunks
           /\ audioBlob' = RecordedBlob(chunks)
           /\ payloads' = Append(payloads, RecordedBlob(chunks))
           /\ handleProcessAudio(RecordedBlob(chunks))
    /\ captures' = [captures EXCEPT ![c].recorder = "inactive",
                                    ![c].stream = "released",
                                    ![c].delivered = @ + 1]
    /\ UNCHANGED <<isRecording, mediaRecorderRef, micPending, alerts, dialogOpen>>

----------------------------------------------------------------------------

Next ==
    \/ startRecording
    \/ \E constructed \in BOOLEAN : getUserMediaResolved(constructed)
    \/ getUserMediaRejected
    \/ stopRecording
    \/ \E c \in 1..Len(captures), hasData \in BOOLEAN : recorderStopped(c, hasData)
    \/ handleUploadClick
    \/ handleFileChange
    \/ fileDialogCancelled
    \/ \E r \in 1..Len(runs), ok \in BOOLEAN : blobToBase64Settled(r, ok)
    \/ \E r \in 1..Len(runs), o \in TranscribeOutcomes : transcribeSettled(r, o)
    \/ \E r \in 1..Len(runs), o \in SummarizeOutcomes : summarizeSettled(r, o)

Spec == Init /\ [][Next]_vars

\* A suspended handleProcessAudio resumes: the promise it awaits (FileReader,
\* generateContent) settles.
RunProgress ==
    \E r \in 1..Len(runs) :
        \/ \E ok \in BOOLEAN : blobToBase64Settled(r, ok)
        \/ \E o \in TranscribeOutcomes : transcribeSettled(r, o)
        \/ \E o \in SummarizeOutcomes : summarizeSettled(r, o)

\* Spec under the assumption that every awaited request eventually returns a
\* response or fails; the user and the microphone are under no obligation.
FairSpec == Spec /\ WF_vars(RunProgress)

----------------------------------------------------------------------------
\* App.tsx: the result cards (copy and export)

\* formatTranscript with the speaker label printed for every segment, also
\* when the segment has no speaker.
formatTranscript_LabelAlways(segments, forFile) ==
    Join([i \in 1..Len(segments) |->
             <<"[">> \o segments[i].startTime \o <<" - ">> \o segments[i].endTime
             \o <<"] ">> \o segments[i].speaker \o <<": ">> \o segments[i].text],
         IF forFile THEN <<"\n">> ELSE <<"\n", "\n">>)

\* formatTranscript (App.tsx:7-13)
formatTranscript(segments, forFile) ==
    LET separator == IF forFile THEN <<"\n">> ELSE <<"\n", "\n">>
        speakerLabel(segment) ==
            IF segment.speaker # << >> THEN segment.speaker \o <<": ">> ELSE << >>
    IN  Join([i \in 1..Len(segments) |->
                 <<"[">> \o segments[i].startTime \o <<" - ">>
                 \o segments[i].endTime \o <<"] ">>
                 \o speakerLabel(segments[i]) \o segments[i].text],
             separator)

\* The result cards are rendered (App.tsx:128).
CardsShown == status = "DONE" /\ Len(transcript) > 0

\* copyToClipboard (App.tsx:78-89) from the card of the given type.
copyToClipboard(type) ==
    /\ CardsShown
    /\ copyTimers[type] < MaxTimers
    /\ clipboard' = Written(type, IF type = "transcript"
                                  THEN formatTranscript(transcript, FALSE)
                                  ELSE summary)
    /\ IF type = "transcript"
       THEN copiedTranscript' = TRUE /\ UNCHANGED copiedSummary
       ELSE copiedSummary' = TRUE /\ UNCHANGED copiedTranscript
    /\ copyTimers' = [copyTimers EXCEPT ![type] = @ + 1]
    /\ UNCHANGED <<hookVars, dialogOpen, appVars, payloads, download>>

\* A timeout set by copyToClipboard fires (App.tsx:84, 87).
copyTimerFired(type) ==
    /\ copyTimers[type] > 0
    /\ copyTimers' = [copyTimers EXCEPT ![type] = @ - 1]
    /\ IF type = "transcript"
       THEN copiedTranscript' = FALSE /\ UNCHANGED copiedSummary
       ELSE copiedSummary' = FALSE /\ UNCHANGED copiedTranscript
    /\ UNCHANGED <<hookVars, dialogOpen, appVars, payloads, clipboard, download>>

\* handleExport (App.tsx:91-103) from the card of the given type; the file is
\* named `${type}.txt`.
handleExport(type) ==
    /\ CardsShown
    /\ download' = Written(type, IF type = "transcript"
                                 THEN formatTranscript(transcript, TRUE)
                                 ELSE summary)
    /\ UNCHANGED <<hookVars, dialogOpen, appVars, payloads, copiedTranscript, copiedSummary,
                   copyTimers, clipboard>>

\* The transcripts shown by the cards: the non-empty arrays of at most
\* MaxSegments segments.
RECURSIVE SeqsUpTo(_, _)
SeqsUpTo(S, n) ==
    IF n = 0 THEN { << >> }
    ELSE SeqsUpTo(S, n - 1)
         \cup { Append(t, x) : t \in { u \in SeqsUpTo(S, n - 1) : Len(u) = n - 1 },
                               x \in S }
ShownTranscripts == SeqsUpTo({SegA, SegB, SegC}, MaxSegments) \ { << >> }

\* The state after one uploaded file was transcribed to t and summarized to
\* text: Done, with both cards shown.
PresenterInit ==
    \E t \in ShownTranscripts, text \in { << >>, <<"summary">> } :
        /\ isRecording = FALSE
        /\ audioBlob = NoBlob
        /\ mediaRecorderRef = 0
        /\ audioChunksRef = << >>
        /\ micPending = 0
        /\ captures = << >>
        /\ alerts = 0
        /\ dialogOpen = FALSE
        /\ status = "DONE"
        /\ transcript = t
        /\ summary = text
        /\ error = << >>
        /\ runs = << [blob |-> FileBlob, pc |-> "done", tReq |-> "ok", sReq |-> "ok",
                      tSent |-> 1, sSent |-> 1, tRes |-> t,
                      sDoc |-> summarizeText(t).doc] >>
        /\ transcriptBy = 1
        /\ summaryBy = 1
        /\ startedFrom = [status |-> "IDLE", results |-> FALSE, error |-> FALSE]
        /\ copiedTranscript = FALSE
        /\ copiedSummary = FALSE
        /\ copyTimers = [transcript |-> 0, summary |-> 0]
        /\ clipboard = NoText
        /\ download = NoText
        /\ payloads = << >>

PresenterNext ==
    \/ \E type \in {"transcript", "summary"} : copyToClipboard(type)
    \/ \E type \in {"transcript", "summary"} : copyTimerFired(type)
    \/ \E type \in {"transcript", "summary"} : handleExport(type)

PresenterSpec == PresenterInit /\ [][PresenterNext]_vars

----------------------------------------------------------------------------
\* Properties

Runs == 1..Len(runs)
Captures == 1..Len(captures)

\* Run r has started and has neither reached Done nor failed to Idle.
InFlight(r) == runs[r].pc \in {"encoding", "transcribing", "summarizing"}

\* The step in which transcribeAudio of run r throws: blobToBase64 rejected,
\* the request failed, or JSON.parse threw.
TranscriptionFails(r) ==
    /\ r \in Runs
    /\ runs[r].pc \in {"encoding", "transcribing"}
    /\ runs'[r].pc = "failed"

\* C1: if the transcription call of a run fails, that run issues no
\* summarization request and writes no summary, and the step that handles the
\* failure leaves status Idle, an error holding the transcription-failure
\* notice, and both Transcript and Summary empty.
C1_TranscriptionFailureLeavesNothing ==
    [][\A r \in Runs :
          TranscriptionFails(r) =>
              /\ runs'[r].sReq = "none"
              /\ summaryBy' # r
              /\ status' = "IDLE"
              /\ error' # << >>
              /\ Contains(error', TranscribeFailedMessage[1])
              /\ transcript' = << >>
              /\ summary' = << >>]_vars

\* C2: whenever a run has ended in Idle with an error, whichever step failed,
\* the stored Transcript and Summary are both empty.
C2_FailureDiscardsResults ==
    (status = "IDLE" /\ error # << >>) => (transcript = << >> /\ summary = << >>)

\* C3: at most one run is in flight at any time.
C3_AtMostOneRunInFlight ==
    Cardinality({r \in Runs : InFlight(r)}) <= 1

\* C4: whenever status is Done, the stored Transcript and the stored Summary
\* were both written by the most recently started run.
C4_DoneResultsOfNewestRun ==
    status = "DONE" => (transcriptBy = Len(runs) /\ summaryBy = Len(runs))

\* The step in which the transcription of run r returns the empty array.
EmptyTranscriptReturned(r) ==
    /\ r \in Runs
    /\ runs[r].pc = "transcribing"
    /\ runs'[r].tReq = "ok"
    /\ runs'[r].tRes = << >>

\* C5 as claimed: summarize([]) returns the placeholder NothingToSummarize
\* without a request, and a run whose transcription returns the empty
\* Transcript reaches Done with that same placeholder as its Summary.
C5_EmptyTranscriptServicePlaceholder ==
    [][/\ ~summarizeText(<< >>).request
       /\ summarizeText(<< >>).value = NothingToSummarize
       /\ \A r \in Runs :
             EmptyTranscriptReturned(r) =>
                 /\ runs'[r].sReq = "none"
                 /\ status' = "DONE"
                 /\ summary' = NothingToSummarize]_vars

\* C5 as amended: summarize([]) returns the placeholder NothingToSummarize
\* without a request; a run whose transcription returns the empty Transcript
\* issues no summarization request (it does not call summarize) and reaches
\* Done with the pipeline's own placeholder, NoTranscriptSummary, as Summary.
C5_EmptyTranscriptPipelinePlaceholder ==
    [][/\ ~summarizeText(<< >>).request
       /\ summarizeText(<< >>).value = NothingToSummarize
       /\ \A r \in Runs :
             EmptyTranscriptReturned(r) =>
                 /\ runs'[r].pc = "done"
                 /\ runs'[r].sReq = "none"
                 /\ status' = "DONE"
                 /\ summary' = NoTranscriptSummary]_vars

\* A run whose transcription returned the empty array is Done and the
\* pipeline's placeholder is the stored Summary.
C5_Witness ==
    \E r \in Runs :
        /\ runs[r].pc = "done"
        /\ runs[r].tReq = "ok"
        /\ runs[r].tRes = << >>
        /\ runs[r].sReq = "none"
        /\ status = "DONE"
        /\ summaryBy = r
        /\ summary = NoTranscriptSummary

\* C6: a run's summarization request exists only once its transcription
\* request has succeeded with a non-empty Transcript; the two requests of a
\* run are never pending together; a failed transcription has no
\* summarization request.
C6_SummarizeAfterTranscribe ==
    \A r \in Runs :
        /\ runs[r].sReq # "none" => (runs[r].tReq = "ok" /\ Len(runs[r].tRes) > 0)
        /\ ~(runs[r].tReq = "pending" /\ runs[r].sReq = "pending")
        /\ runs[r].tReq \in {"failed", "none"} => runs[r].sReq = "none"

\* A run's summarization request is pending after its transcription succeeded.
C6_Witness ==
    \E r \in Runs :
        /\ runs[r].pc = "summarizing"
        /\ runs[r].sReq = "pending"
        /\ runs[r].tReq = "ok"
        /\ Len(runs[r].tRes) = 2

\* C7: the step that starts a run leaves status Processing and Transcript,
\* Summary and error empty, whatever the state before it.
C7_RunStartClears ==
    [][Len(runs') > Len(runs) =>
          /\ status' = "PROCESSING"
          /\ transcript' = << >>
          /\ summary' = << >>
          /\ error' = << >>]_vars

\* A second run has just started from Done with the first run's results
\* stored, and nothing of them is left.
C7_Witness ==
    /\ Len(runs) = 2
    /\ runs[1].pc = "done"
    /\ runs[2].pc = "encoding"
    /\ startedFrom.status = "DONE"
    /\ startedFrom.results
    /\ status = "PROCESSING"
    /\ transcript = << >>
    /\ summary = << >>
    /\ error = << >>

\* No recording is active and no stop event is pending.
RecorderQuiet ==
    /\ ~isRecording
    /\ \A c \in Captures : captures[c].recorder # "stopping"

\* C8: whenever no recording is active and no stop event is pending, every
\* stream acquired by a successful start() (its recorder was constructed and
\* started) has had its tracks stopped.
C8_StreamsReleasedWhenQuiet ==
    RecorderQuiet =>
        \A c \in Captures :
            captures[c].recorder # "none" => captures[c].stream = "released"

\* C9: a recorder delivers its blob only while the recording flag is off and
\* at most once, and once no recording is active and no stop event is
\* pending every recorder that was started has delivered exactly one blob.
C9_OnePayloadPerCycle ==
    [][/\ \A c \in Captures :
             captures'[c].delivered > captures[c].delivered =>
                 (~isRecording /\ captures'[c].delivered = 1)
       /\ RecorderQuiet' =>
             \A c \in 1..Len(captures') :
                 captures'[c].recorder # "none" => captures'[c].delivered = 1]_vars

\* The step in which a start() call fails because getUserMedia rejected: the
\* catch block ran and no stream was acquired.
StartRejected ==
    /\ alerts' > alerts
    /\ Len(captures') = Len(captures)

NoStartSucceeded == \A c \in Captures : captures[c].recorder = "none"

\* C11: in every state in which no start() has succeeded, a call of stop()
\* leaves the recording flag, the buffered chunks, the current blob and the
\* recorders as they are: no stop event is queued, so no payload is delivered
\* and no run starts.
C11_StopWithoutStartIsNoOp ==
    NoStartSucceeded =>
        /\ stopRecordingEffect.isRecording = isRecording
        /\ stopRecordingEffect.audioChunksRef = audioChunksRef
        /\ stopRecordingEffect.audioBlob = audioBlob
        /\ stopRecordingEffect.captures = captures
        /\ \A c \in Captures : captures[c].recorder # "stopping"

\* The stop button is shown and enabled although no start() has succeeded
\* (the microphone was granted and the recorder's constructor threw).
C11_Witness ==
    /\ NoStartSucceeded
    /\ isRecording
    /\ alerts = 1
    /\ Len(captures) = 1
    /\ PageClickable
    /\ ~isLoading

\* The requests issued so far, over all runs.
RECURSIVE SentUpTo(_, _)
SentUpTo(rs, n) ==
    IF n = 0 THEN 0 ELSE rs[n].tSent + rs[n].sSent + SentUpTo(rs, n - 1)

\* The step in which some run fails to Idle.
SomeRunFails == \E r \in Runs : runs[r].pc # "failed" /\ runs'[r].pc = "failed"

RECURSIVE SplitOn(_, _)
SplitOn(text, sep) ==
    LET at == { i \in 1..(Len(text) - Len(sep) + 1) :
                   SubSeq(text, i, i + Len(sep) - 1) = sep }
    IN  IF at = { } THEN <<text>>
        ELSE LET i == CHOOSE j \in at : \A k \in at : j <= k
             IN  <<SubSeq(text, 1, i - 1)>>
                 \o SplitOn(SubSeq(text, i + Len(sep), Len(text)), sep)

\* The line of a segment: "[startTime - endTime] speaker: text", without
\* "speaker: " for a segment that has no speaker.
ExpectedLine(seg) ==
    IF seg.speaker = << >>
    THEN <<"[">> \o seg.startTime \o <<" - ">> \o seg.endTime \o <<"] ">> \o seg.text
    ELSE <<"[">> \o seg.startTime \o <<" - ">> \o seg.endTime \o <<"] ">>
         \o seg.speaker \o <<": ">> \o seg.text

\* C13: the copied and the exported text of the shown Transcript each hold
\* one line per segment, in the Transcript's order, each line the segment's
\* ExpectedLine; the export separates them by one newline, the copy by two,
\* and that is their only difference.
C13_FormatTranscriptLines ==
    LET expected == [i \in 1..Len(transcript) |-> ExpectedLine(transcript[i])] IN
    /\ clipboard.type = "transcript" =>
           SplitOn(clipboard.text, <<"\n", "\n">>) = expected
    /\ download.type = "transcript" =>
           SplitOn(download.text, <<"\n">>) = expected
    /\ (clipboard.type = "transcript" /\ download.type = "transcript") =>
           clipboard.text = Join(SplitOn(download.text, <<"\n">>), <<"\n", "\n">>)

\* A transcript of a segment without speaker followed by two with speakers
\* was both copied and exported.
C13_Witness ==
    /\ clipboard.type = "transcript"
    /\ download.type = "transcript"
    /\ Len(transcript) = 3
    /\ transcript[1].speaker = << >>
    /\ transcript[2].speaker = <<"speaker1">>
    /\ transcript[3].speaker = <<"speaker2">>

\* C14: the document of every summarization request holds one line per
\* segment of the run's Transcript, line i being the text of segment i: none
\* dropped, duplicated or reordered.
C14_DocumentKeepsOrder ==
    \A r \in Runs :
        runs[r].sSent > 0 =>
            /\ Len(runs[r].tRes) > 0
            /\ SplitOn(runs[r].sDoc, <<"\n">>)
                   = [i \in 1..Len(runs[r].tRes) |-> runs[r].tRes[i].text]

\* A summarization request is pending for the Transcript <<SegB, SegA>>, with
\* the document "b\na".
C14_Witness ==
    \E r \in Runs :
        /\ runs[r].sReq = "pending"
        /\ runs[r].tRes = <<SegB, SegA>>
        /\ runs[r].sDoc = <<"b", "\n", "a">>

\* The step in which run r ends.
RunEnds(r) == r \in Runs /\ InFlight(r) /\ runs'[r].pc \in {"done", "failed"}

\* C15: given that every request eventually settles, the runs in flight
\* eventually have all ended with status no longer Processing; a run ends
\* either Done or Idle with an error, and once no run is in flight status is
\* not Processing.
C15_ProcessingEnds ==
    /\ ((\E r \in Runs : InFlight(r)) \/ status = "PROCESSING")
           ~> ((\A r \in Runs : ~InFlight(r)) /\ status # "PROCESSING")
    /\ []((\A r \in Runs : ~InFlight(r)) => status # "PROCESSING")
    /\ [][\A r \in Runs :
             RunEnds(r) =>
                 \/ runs'[r].pc = "done" /\ status' = "DONE"
                 \/ runs'[r].pc = "failed" /\ status' = "IDLE" /\ error' # << >>]_vars

\* One run has failed to Idle and the next one has reached Done.
C15_Witness ==
    /\ Len(runs) = 2
    /\ runs[1].pc = "failed"
    /\ runs[2].pc = "done"
    /\ status = "DONE"

\* Run r has ended.
Ended(r) == runs[r].pc \in {"done", "failed"}

\* C16 as stated: every payload starts exactly one run that passes it to
\* exactly one transcription request.  Violated: a run whose payload cannot
\* be read ends with no request issued.
C16_PayloadReachesOneRequest ==
    /\ Len(runs) = Len(payloads)
    /\ \A r \in Runs :
           /\ runs[r].blob = payloads[r]
           /\ Ended(r) => runs[r].tSent = 1

\* C16: the payloads made available and the runs started correspond one to
\* one, in order; the step that makes a payload available sets status to
\* Processing; a run issues at most one transcription request, none exactly
\* while its payload is being read or when reading it failed.
C16_PayloadStartsOneRun ==
    /\ [](/\ Len(runs) = Len(payloads)
          /\ \A r \in Runs :
                 /\ runs[r].blob = payloads[r]
                 /\ runs[r].blob # NoBlob
                 /\ runs[r].tSent \in {0, 1}
                 /\ runs[r].tSent = 0 <=>
                        \/ runs[r].pc = "encoding"
                        \/ runs[r].pc = "failed" /\ runs[r].tReq = "none")
    /\ [][Len(payloads') # Len(payloads) =>
             /\ Len(payloads') = Len(payloads) + 1
             /\ status' = "PROCESSING"
             /\ runs' = Append(runs, NewRun(payloads'[Len(payloads')]))]_vars

\* A selected file that could not be read, then a recording that reached its
\* transcription request.
C16_Witness ==
    /\ Len(payloads) = 2
    /\ payloads[1] = FileBlob
    /\ runs[1].pc = "failed"
    /\ runs[1].tSent = 0
    /\ payloads[2] = RecordedBlob(<<1>>)
    /\ runs[2].tSent = 1

\* C17: a stored error implies status Idle, and status Done implies no stored
\* error and a non-empty summary.  Violated: a run that fails while a later
\* run is in flight stores its error, and the later run then sets Done; and a
\* summarization response with empty text is stored as the summary at Done.
C17_ErrorOnlyWhenIdle ==
    /\ error # << >> => status = "IDLE"
    /\ status = "DONE" => error = << >> /\ summary # << >>

\* C18: while the recording flag is set, the ref holds a recorder that is
\* recording.  Violated: when the microphone is granted and the MediaRecorder
\* constructor throws, the flag is already set and the ref is null or holds
\* the recorder of an earlier recording.
C18_FlagMeansStoppableRecorder ==
    isRecording =>
        /\ mediaRecorderRef # 0
        /\ captures[mediaRecorderRef].recorder = "recording"

====
